---- MODULE Spec2Model ----
(***************************************************************************)
(* org2neo: build a relational snapshot (nodes, links, tags) from a tree   *)
(* of .org notes (database_builder.py), mirror it into a graph store       *)
(* (py_connector.py), both driven by update_graph.py.                      *)
(*                                                                         *)
(* Strings are sequences of one-character tokens; the extension ".org" is  *)
(* one token, so that suffix tests and extension stripping are computed as *)
(* the code computes them.  The alphabet has no upper-case letters and no  *)
(* LIKE wildcards.                                                         *)
(***************************************************************************)
EXTENDS Naturals, Integers, Sequences, FiniteSets, TLC

\* ------------------------------------------------------------------------
\* Bounds of the model
\* ------------------------------------------------------------------------
MaxFiles == 2
MaxLinks == 2
MaxFaults == 1
MaxTagTokens == 7

\* ------------------------------------------------------------------------
\* Strings
\* ------------------------------------------------------------------------
Org == ".org"

EndsWithOrg(s) == Len(s) > 0 /\ s[Len(s)] = Org

\* rel_path[:-4] when rel_path.endswith('.org')
StripOrg(s) == IF EndsWithOrg(s) THEN SubSeq(s, 1, Len(s) - 1) ELSE s

\* link_path += '.org' unless it already ends with it
AddOrg(s) == IF EndsWithOrg(s) THEN s ELSE s \o <<Org>>

\* file LIKE '%' || p : the stored path ends with p
IsSuffix(p, s) == Len(p) <= Len(s) /\ SubSeq(s, Len(s) - Len(p) + 1, Len(s)) = p

RECURSIVE LastSlash(_, _)
LastSlash(s, n) == IF n = 0 THEN 0
                   ELSE IF s[n] = "/" THEN n ELSE LastSlash(s, n - 1)

\* os.path.splitext(os.path.basename(org_file))[0]
Basename(s) == LET t == StripOrg(s) IN SubSeq(t, LastSlash(t, Len(t)) + 1, Len(t))

\* hashlib.sha1(rel_path).hexdigest()[:7], taken as collision free: the
\* digest of s is the string s behind a marker no note text contains
Sha1(s) == <<"#">> \o s

RECURSIVE SeqOfSet(_)
SeqOfSet(S) == IF S = {} THEN <<>>
               ELSE LET x == CHOOSE y \in S : TRUE IN <<x>> \o SeqOfSet(S \ {x})

RECURSIVE SelectKind(_, _)
SelectKind(ls, kind) ==
    IF ls = <<>> THEN <<>>
    ELSE (IF Head(ls).kind = kind THEN <<Head(ls)>> ELSE <<>>) \o SelectKind(Tail(ls), kind)

Range(s) == { s[n] : n \in 1..Len(s) }

\* ------------------------------------------------------------------------
\* The note collection: what the files under ORG_ROAM_DIR contain
\* ------------------------------------------------------------------------
NoText == <<>>

PathA  == <<"a", Org>>
PathB  == <<"b", Org>>
PathAB == <<"a", "b", Org>>
Paths  == {PathA, PathB, PathAB}

\* bracket links as they are written in a note
RawLinks == { [kind |-> "file", target |-> <<"b", Org>>],
              [kind |-> "id",   target |-> <<"x">>],
              [kind |-> "wiki", target |-> <<"b">>] }

LinkTexts == UNION { [1..n -> RawLinks] : n \in 0..MaxLinks }

\* The text of a line is a sequence of tokens: a colon, a blank, the "#+" of
\* a keyword, the star of a headline, or a maximal run of tag characters
Colon == ":"
Blank == " "

IsWord(tok) == tok \notin {Colon, Blank, "#+", "*"}

\* filetags is what follows "#+filetags:" on the declaration line (NoText:
\* the note has no declaration line)
EmptyContent == [id |-> NoText, title |-> NoText, headline |-> NoText,
                 filetags |-> NoText, links |-> <<>>]

\* the declaration line "#+filetags: :t:"
OneTag == <<Blank, Colon, "t", Colon>>

\* the texts a note at a given path may hold
ContentsOf(p) ==
    IF p = PathA
    THEN { [id |-> d, title |-> t, headline |-> NoText, filetags |-> (IF t = NoText THEN NoText ELSE OneTag),
            links |-> ls] : d \in {NoText, <<"x">>, <<"b">>}, t \in {NoText, <<"T">>}, ls \in LinkTexts }
    ELSE IF p = PathB
    THEN { [id |-> d, title |-> NoText, headline |-> h, filetags |-> (IF h = NoText THEN NoText ELSE OneTag),
            links |-> <<>>] : d \in {NoText, <<"x">>}, h \in {NoText, <<"H">>} }
    ELSE { [EmptyContent EXCEPT !.links = ls] :
            ls \in { <<>>, <<[kind |-> "wiki", target |-> <<"b">>]>> } }

\* one content for each path
Fillings == { [p \in Paths |-> IF p = PathA THEN ca ELSE IF p = PathB THEN cb ELSE cab] :
                ca \in ContentsOf(PathA), cb \in ContentsOf(PathB), cab \in ContentsOf(PathAB) }

\* the collections: at most MaxFiles of the paths, each with one of its texts
Collections == { [p \in F |-> c[p]] :
                    c \in Fillings, F \in { G \in SUBSET Paths : Cardinality(G) <= MaxFiles } }

\* read faults of a file: "ok", "open" (open() raises), "decode" (the first
\* 5000 characters decode, the rest of the file does not)
FaultKinds == {"ok", "open", "decode"}

Orders(F) == { s \in [1..Cardinality(F) -> F] : Range(s) = F }

VARIABLES
    fs,          \* the note collection: relative path -> content
    fault,       \* relative path -> read fault of that file
    db_exists,   \* os.path.exists(ORG_ROAM_DB)
    nodes,       \* table nodes, rows in rowid order
    links,       \* table links, rows in rowid order
    tags,        \* table tags, rows in rowid order
    pc,          \* position in the program
    org_files,   \* the list glob.glob returned
    i,           \* index of the file the current pass is at
    node_ids,    \* dict rel_path -> node id built by pass 1
    build_rc,    \* value returned by database_builder.main
    counts,      \* <<node_count, link_count, tag_count>> of the last build
    pass1,       \* nodes and tags as committed at the end of pass 1
    first,       \* what the previous build of the same collection left
    ext,         \* the rows extract_org_roam_data returned
    neo,         \* the remote graph store
    j,           \* index of the remote statement load_to_neo4j is at
    log,         \* the remote statements issued by the current export, with their results
    faults_left, \* remote faults that may still occur
    load_result, \* value returned by load_to_neo4j
    export_rc,   \* value returned by py_connector.main
    exit_code    \* exit status of update_graph.py

bvars == <<fs, fault, db_exists, nodes, links, tags, pc, org_files, i, node_ids,
           build_rc, counts, pass1, first>>

bvars_but_pc == <<fs, fault, db_exists, nodes, links, tags, org_files, i, node_ids,
                  build_rc, counts, pass1, first>>

xvars == <<ext, neo, j, log, faults_left, load_result, export_rc, exit_code>>

vars == <<bvars, xvars>>

\* Python's None where a return code is expected: no return code is negative
None == -1

\* ------------------------------------------------------------------------
\* database_builder.py: pure parts
\* ------------------------------------------------------------------------

\* what f.read(5000) in extract_id_from_filename sees of the file at p
HeaderOf(p) == IF fault[p] = "open" THEN EmptyContent ELSE fs[p]

\* a file whose tail does not decode is read all the same
Readable_lenient(p) == fault[p] # "open"

\* whether f.read() of the whole file at p succeeds
Readable(p) == fault[p] = "ok"

\* extract_id_from_filename, given the relative path and the :ID: value the
\* first 5000 characters declare (NoText: none, or the file cannot be opened)
extract_id_from_filename(rel_path, declared) ==
    IF declared # NoText THEN declared ELSE Sha1(StripOrg(rel_path))

\* extract_links_from_content: file links (extension stripped) first, then
\* id links, then wiki links
extract_links_from_content(content) ==
    LET file_links == SelectKind(content.links, "file")
        id_links   == SelectKind(content.links, "id")
        wiki_links == SelectKind(content.links, "wiki")
    IN  [n \in 1..Len(file_links) |-> StripOrg(file_links[n].target)]
        \o [n \in 1..Len(id_links) |-> id_links[n].target]
        \o [n \in 1..Len(wiki_links) |-> wiki_links[n].target]

\* the lines of a note that hold a colon: the :ID: declaration, the title
\* keyword, the headline and the tag declaration (a bracket link holds one
\* colon at most and no blank-free :word: span)
LinesOf(content) ==
    (IF content.id = NoText THEN {} ELSE {<<Colon, "ID", Colon, Blank>> \o content.id})
    \cup (IF content.title = NoText THEN {}
          ELSE {<<"#+", "title", Colon, Blank>> \o content.title})
    \cup (IF content.headline = NoText THEN {} ELSE {<<"*", Blank>> \o content.headline})
    \cup (IF content.filetags = NoText THEN {}
          ELSE {<<"#+", "filetags", Colon>> \o content.filetags})

\* the \s* of the declaration pattern: leading blanks are not part of tag_line
RECURSIVE StripBlanks(_)
StripBlanks(s) == IF s # <<>> /\ Head(s) = Blank THEN StripBlanks(Tail(s)) ELSE s

\* re.findall(r':([\w-]+):', s) from token n on: matches are found left to
\* right and do not overlap, the closing colon of one match cannot open the
\* next
RECURSIVE FindTags(_, _)
FindTags(s, n) ==
    IF n > Len(s) THEN {}
    ELSE IF s[n] = Colon /\ n + 2 <= Len(s) /\ IsWord(s[n + 1]) /\ s[n + 2] = Colon
         THEN {s[n + 1]} \cup FindTags(s, n + 3)
         ELSE FindTags(s, n + 1)

\* extract_tags_from_content: the :word: spans of the declaration line and
\* the :word: spans of the whole text, which include the marker of an :ID:
\* declaration (no note of the collection has a :TAGS: property)
extract_tags_from_content(content) ==
    LET filetag_tags == FindTags(StripBlanks(content.filetags), 1)
        inline_tags  == UNION { FindTags(line, 1) : line \in LinesOf(content) }
    IN  filetag_tags \cup inline_tags

\* title of pass 1: #+title:, else the first headline, else the file name
TitleOf(rel_path, content) ==
    IF content.title # NoText THEN content.title
    ELSE IF content.headline # NoText THEN content.headline
    ELSE Basename(rel_path)

\* ------------------------------------------------------------------------
\* The three tables (schema of clear_and_create_db)
\* ------------------------------------------------------------------------
NodeRow(id, file, title) == [id |-> id, file |-> file, title |-> title, level |-> 0]
LinkRow(source, dest)    == [source |-> source, dest |-> dest, type |-> "id"]
TagRow(node_id, tag)     == [node_id |-> node_id, tag |-> tag]

NodeIds(tbl) == { tbl[n].id : n \in 1..Len(tbl) }

\* INSERT OR IGNORE in place of INSERT OR REPLACE: the first row of an id stays
InsertOrReplaceNode_first_wins(tbl, row) ==
    IF row.id \in NodeIds(tbl) THEN tbl ELSE Append(tbl, row)

\* INSERT OR REPLACE INTO nodes: id is the primary key, the row that holds
\* the id is deleted and the new row gets a fresh rowid
InsertOrReplaceNode(tbl, row) ==
    LET Other(r) == r.id # row.id IN Append(SelectSeq(tbl, Other), row)

\* the placeholder row is never stored
InsertOrIgnoreNode_dropped(tbl, row) == tbl

\* INSERT OR IGNORE INTO nodes
InsertOrIgnoreNode(tbl, row) ==
    IF row.id \in NodeIds(tbl) THEN tbl ELSE Append(tbl, row)

\* INSERT OR REPLACE INTO links: the table has no key, nothing conflicts
InsertOrReplaceLink(tbl, row) == Append(tbl, row)

\* INSERT OR REPLACE INTO tags: the table has no key, nothing conflicts
InsertOrReplaceTag(tbl, row) == Append(tbl, row)

\* SELECT id FROM nodes WHERE file LIKE '%' || link_path : the rows in rowid
\* order
PathMatches(tbl, link_path) ==
    LET Hit(r) == IsSuffix(link_path, r.file) IN SelectSeq(tbl, Hit)

\* the file path is tried before the exact id
ResolveLink_path_first(db, source_id, link) ==
    LET hits == PathMatches(db.nodes, AddOrg(link)) IN
    IF hits # <<>>
    THEN [nodes |-> db.nodes,
          links |-> InsertOrReplaceLink(db.links, LinkRow(source_id, hits[1].id))]
    ELSE IF link \in NodeIds(db.nodes)
    THEN [nodes |-> db.nodes, links |-> InsertOrReplaceLink(db.links, LinkRow(source_id, link))]
    ELSE LET dest_id == extract_id_from_filename(link, NoText) IN
         [nodes |-> InsertOrIgnoreNode(db.nodes, NodeRow(dest_id, link, link)),
          links |-> InsertOrReplaceLink(db.links, LinkRow(source_id, dest_id))]

\* lines 236-267: resolve one link target and store the edge
ResolveLink(db, source_id, link) ==
    IF link \in NodeIds(db.nodes)
    THEN [nodes |-> db.nodes, links |-> InsertOrReplaceLink(db.links, LinkRow(source_id, link))]
    ELSE LET hits == PathMatches(db.nodes, AddOrg(link)) IN
         IF hits # <<>>
         THEN [nodes |-> db.nodes,
               links |-> InsertOrReplaceLink(db.links, LinkRow(source_id, hits[1].id))]
         ELSE LET dest_id == extract_id_from_filename(link, NoText) IN
              [nodes |-> InsertOrIgnoreNode(db.nodes, NodeRow(dest_id, link, link)),
               links |-> InsertOrReplaceLink(db.links, LinkRow(source_id, dest_id))]

RECURSIVE ResolveLinks(_, _, _)
ResolveLinks(db, source_id, ls) ==
    IF ls = <<>> THEN db
    ELSE ResolveLinks(ResolveLink(db, source_id, Head(ls)), source_id, Tail(ls))

RECURSIVE InsertTags(_, _, _)
InsertTags(tbl, node_id, ts) ==
    IF ts = <<>> THEN tbl
    ELSE InsertTags(InsertOrReplaceTag(tbl, TagRow(node_id, Head(ts))), node_id, Tail(ts))

\* ------------------------------------------------------------------------
\* database_builder.main
\* ------------------------------------------------------------------------
NoFirst == [done |-> FALSE]

\* the graph store and the rows of a snapshot
EmptyGraph == [nodes |-> <<>>, rels |-> <<>>, tagents |-> <<>>, hastags |-> <<>>]

NoData == [nodes |-> <<>>, links |-> <<>>, tags |-> <<>>]

InitBuild ==
    /\ pc = "clear"
    /\ org_files = <<>>
    /\ i = 0
    /\ node_ids = <<>>
    /\ build_rc = None
    /\ counts = <<0, 0, 0>>
    /\ pass1 = [nodes |-> <<>>, tags |-> <<>>]
    /\ first = NoFirst

InitExport ==
    /\ ext = NoData
    /\ j = 0
    /\ log = <<>>
    /\ load_result = "none"
    /\ export_rc = None
    /\ exit_code = None

Init ==
    /\ fs \in Collections
    /\ fault \in { f \in [DOMAIN fs -> FaultKinds] :
                     Cardinality({ p \in DOMAIN fs : f[p] # "ok" }) <= 1 }
    /\ db_exists = FALSE
    /\ nodes = <<>>
    /\ links = <<>>
    /\ tags = <<>>
    /\ InitBuild
    /\ InitExport
    /\ neo = EmptyGraph
    /\ faults_left = 0

\* the schema is created without removing the rows of the previous run
clear_and_create_db_keep ==
    /\ pc = "clear"
    /\ \E outcome \in {"ok", "remove_fails", "create_fails"} :
        \/ /\ outcome = "remove_fails"
           /\ db_exists
           /\ build_rc' = 1
           /\ pc' = "built"
           /\ UNCHANGED <<db_exists, nodes, links, tags>>
        \/ /\ outcome = "create_fails"
           /\ db_exists' = FALSE
           /\ nodes' = <<>> /\ links' = <<>> /\ tags' = <<>>
           /\ build_rc' = 1
           /\ pc' = "built"
        \/ /\ outcome = "ok"
           /\ db_exists' = TRUE
           /\ UNCHANGED <<nodes, links, tags>>
           /\ build_rc' = build_rc
           /\ pc' = "scan"
    /\ UNCHANGED xvars
    /\ UNCHANGED <<fs, fault, org_files, i, node_ids, counts, pass1, first>>

\* clear_and_create_db, and main's return 1 when it fails
clear_and_create_db ==
    /\ pc = "clear"
    /\ \E outcome \in {"ok", "remove_fails", "create_fails"} :
        \/ /\ outcome = "remove_fails"
           /\ db_exists
           /\ build_rc' = 1
           /\ pc' = "built"
           /\ UNCHANGED <<db_exists, nodes, links, tags>>
        \/ /\ outcome = "create_fails"
           /\ db_exists' = FALSE
           /\ nodes' = <<>> /\ links' = <<>> /\ tags' = <<>>
           /\ build_rc' = 1
           /\ pc' = "built"
        \/ /\ outcome = "ok"
           /\ db_exists' = TRUE
           /\ nodes' = <<>> /\ links' = <<>> /\ tags' = <<>>
           /\ build_rc' = build_rc
           /\ pc' = "scan"
    /\ UNCHANGED xvars
    /\ UNCHANGED <<fs, fault, org_files, i, node_ids, counts, pass1, first>>

\* scan_and_populate_db up to the first pass: the glob, in any order
scan_glob ==
    /\ pc = "scan"
    /\ \E order \in Orders(DOMAIN fs) :
        /\ org_files' = order
        /\ IF order = <<>>
           THEN /\ build_rc' = 1
                /\ pc' = "built"
                /\ i' = i
           ELSE /\ build_rc' = build_rc
                /\ pc' = "pass1"
                /\ i' = 1
    /\ node_ids' = <<>>
    /\ UNCHANGED xvars
    /\ UNCHANGED <<fs, fault, db_exists, nodes, links, tags, counts, pass1, first>>

\* one iteration of the first pass (lines 172-213), and the commit after the
\* last one
pass1_file ==
    /\ pc = "pass1"
    /\ LET rel_path == org_files[i]
           file_id  == extract_id_from_filename(rel_path, HeaderOf(rel_path).id)
           content  == IF Readable(rel_path) THEN fs[rel_path] ELSE EmptyContent
           title    == IF Readable(rel_path) THEN TitleOf(rel_path, content)
                       ELSE Basename(rel_path)
           nodes1   == InsertOrReplaceNode(nodes, NodeRow(file_id, rel_path, title))
           tags1    == InsertTags(tags, file_id, SeqOfSet(extract_tags_from_content(content)))
       IN  /\ node_ids' = (rel_path :> file_id) @@ node_ids
           /\ nodes' = nodes1
           /\ tags' = tags1
           /\ IF i = Len(org_files)
              THEN /\ pc' = "pass2"
                   /\ i' = 1
                   /\ pass1' = [nodes |-> nodes1, tags |-> tags1]
              ELSE /\ pc' = "pass1"
                   /\ i' = i + 1
                   /\ pass1' = pass1
    /\ UNCHANGED xvars
    /\ UNCHANGED <<fs, fault, db_exists, links, org_files, build_rc, counts, first>>

\* one iteration of the second pass (lines 219-269); after the last one the
\* commit, the counts and main's return 0
pass2_file ==
    /\ pc = "pass2"
    /\ LET rel_path  == org_files[i]
           source_id == node_ids[rel_path]
           db        == IF Readable(rel_path)
                        THEN ResolveLinks([nodes |-> nodes, links |-> links], source_id,
                                          extract_links_from_content(fs[rel_path]))
                        ELSE [nodes |-> nodes, links |-> links]
       IN  /\ nodes' = db.nodes
           /\ links' = db.links
           /\ IF i = Len(org_files)
              THEN /\ pc' = "built"
                   /\ i' = i
                   /\ counts' = <<Len(db.nodes), Len(db.links), Len(tags)>>
                   /\ build_rc' = 0
              ELSE /\ pc' = "pass2"
                   /\ i' = i + 1
                   /\ UNCHANGED <<counts, build_rc>>
    /\ UNCHANGED xvars
    /\ UNCHANGED <<fs, fault, db_exists, tags, org_files, node_ids, pass1, first>>

\* database_builder.main is run again on the unchanged collection
rebuild ==
    /\ pc = "built"
    /\ build_rc = 0
    /\ first = NoFirst
    /\ first' = [done |-> TRUE, org_files |-> org_files, counts |-> counts, pass1 |-> pass1]
    /\ pc' = "clear"
    /\ build_rc' = None
    /\ UNCHANGED xvars
    /\ UNCHANGED <<fs, fault, db_exists, nodes, links, tags, org_files, i, node_ids,
                   counts, pass1>>

Next == clear_and_create_db \/ scan_glob \/ pass1_file \/ pass2_file

Spec == Init /\ [][Next]_vars

\* Notes with a tag declaration: one note, a.org, with or without a declared
\* ID, whose declaration line is an optional blank followed by up to
\* MaxTagTokens words and colons
TagWords == {"alpha", "beta", "gamma"}

TagBodies ==
    UNION { { s \in [1..n -> TagWords \cup {Colon}] :
                \A k \in 1..(n - 1) : ~(IsWord(s[k]) /\ IsWord(s[k + 1])) } :
            n \in 1..MaxTagTokens }

TagLines == { lead \o body : lead \in {<<>>, <<Blank>>}, body \in TagBodies }

TagCollections ==
    { [p \in {PathA} |-> [EmptyContent EXCEPT !.id = d, !.filetags = line]] :
        d \in {NoText, <<"x">>}, line \in TagLines }

InitTags ==
    /\ fs \in TagCollections
    /\ fault \in [DOMAIN fs -> FaultKinds]
    /\ db_exists = FALSE
    /\ nodes = <<>>
    /\ links = <<>>
    /\ tags = <<>>
    /\ InitBuild
    /\ InitExport
    /\ neo = EmptyGraph
    /\ faults_left = 0

SpecTags == InitTags /\ [][Next]_vars

NextRebuild == Next \/ rebuild

\* the collection of a rebuild has no read faults
InitRebuild == Init /\ \A p \in DOMAIN fs : fault[p] = "ok"

SpecRebuild == InitRebuild /\ [][NextRebuild]_vars

\* ------------------------------------------------------------------------
\* py_connector.py: the remote graph store and load_to_neo4j
\* ------------------------------------------------------------------------

\* a snapshot and a graph left behind by an earlier run on other notes
StaleData  == [nodes |-> <<NodeRow(<<"x">>, <<"o", Org>>, <<"o">>)>>,
               links |-> <<LinkRow(<<"x">>, <<"x">>)>>,
               tags  |-> <<TagRow(<<"x">>, "t")>>]
StaleGraph == [nodes |-> <<NodeRow(<<"x">>, <<"o", Org>>, <<"o">>)>>,
               rels  |-> <<LinkRow(<<"x">>, <<"x">>)>>,
               tagents |-> <<"t">>,
               hastags |-> <<TagRow(<<"x">>, "t")>>]

Stmt(op, row) == [op |-> op, row |-> row]

RECURSIVE TagStmts_rel_first(_)
\* the HAS_TAG of a row is issued before the MERGE of its tag
TagStmts_rel_first(ts) ==
    IF ts = <<>> THEN <<>>
    ELSE <<Stmt("hastag", Head(ts)), Stmt("merge", Head(ts))>> \o TagStmts_rel_first(Tail(ts))

RECURSIVE TagStmts(_)
\* lines 115-142: per tag row, the MERGE of the tag and then its HAS_TAG
TagStmts(ts) ==
    IF ts = <<>> THEN <<>>
    ELSE <<Stmt("merge", Head(ts)), Stmt("hastag", Head(ts))>> \o TagStmts(Tail(ts))

\* the remote statements load_to_neo4j issues, in the order it issues them
LoadPlan(d) ==
    <<Stmt("connect", <<>>), Stmt("clear", <<>>)>>
    \o [n \in 1..Len(d.nodes) |-> Stmt("node", d.nodes[n])]
    \o [n \in 1..Len(d.links) |-> Stmt("link", d.links[n])]
    \o TagStmts(d.tags)

\* no statement is wrapped in a try block of its own
Recovered_never(op) == FALSE

\* statements whose exception load_to_neo4j catches and passes over (the
\* try blocks at lines 99-108 and 134-142)
Recovered(op) == op \in {"link", "hastag"}

\* the store is not cleared
DetachDeleteAll_keep(g) == g

\* MATCH (n) DETACH DELETE n
DetachDeleteAll(g) == EmptyGraph

\* graph.create(Node("OrgNode", ...))
CreateNode(g, row) == [g EXCEPT !.nodes = Append(@, row)]

\* number of OrgNode entities a MATCH on the id binds
MatchNode(g, id) == Cardinality({ n \in 1..Len(g.nodes) : g.nodes[n].id = id })

\* number of Tag entities a MATCH on the name binds
MatchTag(g, name) == Cardinality({ n \in 1..Len(g.tagents) : g.tagents[n] = name })

RECURSIVE Copies(_, _)
Copies(x, n) == IF n = 0 THEN <<>> ELSE <<x>> \o Copies(x, n - 1)

\* MATCH source, MATCH dest, CREATE (source)-[:LINKS_TO]->(dest): one
\* relationship per pair of bindings
CreateLinksTo(g, row) ==
    [g EXCEPT !.rels = @ \o Copies(row, MatchNode(g, row.source) * MatchNode(g, row.dest))]

\* MERGE (t:Tag {name: ...})
MergeTag(g, name) ==
    IF MatchTag(g, name) > 0 THEN g ELSE [g EXCEPT !.tagents = Append(@, name)]

\* MATCH n, MATCH t, CREATE (n)-[:HAS_TAG]->(t)
CreateHasTag(g, row) ==
    [g EXCEPT !.hastags = @ \o Copies(row, MatchNode(g, row.node_id) * MatchTag(g, row.tag))]

\* the effect of one statement on the store
Execute(g, st) ==
    CASE st.op = "connect" -> g
      [] st.op = "clear"   -> DetachDeleteAll(g)
      [] st.op = "node"    -> CreateNode(g, st.row)
      [] st.op = "link"    -> CreateLinksTo(g, st.row)
      [] st.op = "merge"   -> MergeTag(g, st.row.tag)
      [] st.op = "hastag"  -> CreateHasTag(g, st.row)

\* Python's sys.exit(v): None is exit status 0
SysExit(v) == IF v = None THEN 0 ELSE v

\* update_graph.main: both return codes are dropped, the function returns None
update_graph_main(rc_build, rc_export) == None

\* py_connector.main up to the call of load_to_neo4j: extract_org_roam_data
\* and the test "if not nodes"
extract_org_roam_data ==
    /\ pc = "built"
    /\ LET d == IF db_exists THEN [nodes |-> nodes, links |-> links, tags |-> tags]
                ELSE NoData
       IN  /\ ext' = d
           /\ IF d.nodes = <<>>
              THEN /\ export_rc' = 1
                   /\ pc' = "exported"
                   /\ j' = j
              ELSE /\ export_rc' = export_rc
                   /\ pc' = "load"
                   /\ j' = 1
    /\ log' = <<>>
    /\ UNCHANGED <<fs, fault, db_exists, nodes, links, tags, org_files, i, node_ids,
                   build_rc, counts, pass1, first>>
    /\ UNCHANGED <<neo, faults_left, load_result, exit_code>>

\* one remote statement of load_to_neo4j: it succeeds or the store rejects it
Statement(op) ==
    /\ pc = "load"
    /\ LET plan == LoadPlan(ext)
           st   == plan[j]
       IN  /\ st.op = op
           /\ \E rejected \in BOOLEAN :
               /\ rejected => faults_left > 0
               /\ faults_left' = IF rejected THEN faults_left - 1 ELSE faults_left
               /\ neo' = IF rejected THEN neo ELSE Execute(neo, st)
               /\ log' = Append(log, [op |-> st.op, row |-> st.row, ok |-> ~rejected])
               /\ IF rejected /\ ~Recovered(st.op)
                  THEN /\ load_result' = "False"
                       /\ pc' = "loaded"
                       /\ j' = j
                  ELSE IF j = Len(plan)
                  THEN /\ load_result' = "True"
                       /\ pc' = "loaded"
                       /\ j' = j
                  ELSE /\ load_result' = load_result
                       /\ pc' = "load"
                       /\ j' = j + 1
    /\ UNCHANGED bvars_but_pc
    /\ UNCHANGED <<ext, export_rc, exit_code>>

neo_connect        == Statement("connect")
neo_clear          == Statement("clear")
neo_create_node    == Statement("node")
neo_create_link    == Statement("link")
neo_merge_tag      == Statement("merge")
neo_create_has_tag == Statement("hastag")

\* py_connector.main after load_to_neo4j returned False
load_failed ==
    /\ pc = "loaded"
    /\ load_result = "False"
    /\ export_rc' = 1
    /\ pc' = "exported"
    /\ UNCHANGED bvars_but_pc
    /\ UNCHANGED <<ext, neo, j, log, faults_left, load_result, exit_code>>

\* verify_neo4j_data and the return of py_connector.main
verify_neo4j_data ==
    /\ pc = "loaded"
    /\ load_result = "True"
    /\ \E rejected \in BOOLEAN :
        /\ rejected => faults_left > 0
        /\ faults_left' = IF rejected THEN faults_left - 1 ELSE faults_left
        /\ export_rc' = IF rejected THEN 1 ELSE 0
    /\ pc' = "exported"
    /\ UNCHANGED bvars_but_pc
    /\ UNCHANGED <<ext, neo, j, log, load_result, exit_code>>

\* update_graph.py: sys.exit(main())
update_graph_exit ==
    /\ pc = "exported"
    /\ exit_code' = SysExit(update_graph_main(build_rc, export_rc))
    /\ pc' = "exit"
    /\ UNCHANGED bvars_but_pc
    /\ UNCHANGED <<ext, neo, j, log, faults_left, load_result, export_rc>>

\* the collections the whole command is run on: a.org and b.org, a.org with
\* no link, a repeated link, or links that resolve to a note and to nothing
SyncLinkTexts == { <<>>,
                   <<[kind |-> "file", target |-> <<"b", Org>>], [kind |-> "file", target |-> <<"b", Org>>]>>,
                   <<[kind |-> "id", target |-> <<"x">>], [kind |-> "id", target |-> <<"x">>]>>,
                   <<[kind |-> "wiki", target |-> <<"b">>], [kind |-> "id", target |-> <<"x">>]>> }

SyncCollections == { c \in Collections :
                        /\ DOMAIN c \subseteq {PathA, PathB}
                        /\ \A p \in DOMAIN c : c[p].links \in SyncLinkTexts }

InitSync ==
    /\ fs \in SyncCollections
    /\ fault = [p \in DOMAIN fs |-> "ok"]
    /\ db_exists \in BOOLEAN
    /\ nodes = IF db_exists THEN StaleData.nodes ELSE <<>>
    /\ links = IF db_exists THEN StaleData.links ELSE <<>>
    /\ tags = IF db_exists THEN StaleData.tags ELSE <<>>
    /\ InitBuild
    /\ InitExport
    /\ neo \in {EmptyGraph, StaleGraph}
    /\ faults_left = MaxFaults

NextSync ==
    \/ clear_and_create_db \/ scan_glob \/ pass1_file \/ pass2_file
    \/ extract_org_roam_data
    \/ neo_connect \/ neo_clear \/ neo_create_node \/ neo_create_link
    \/ neo_merge_tag \/ neo_create_has_tag
    \/ load_failed \/ verify_neo4j_data \/ update_graph_exit

SpecSync == InitSync /\ [][NextSync]_vars

\* ------------------------------------------------------------------------
\* Properties of the build
\* ------------------------------------------------------------------------
BuildDone == pc = "built" /\ build_rc = 0

CountIn(s, x) == Cardinality({ n \in 1..Len(s) : s[n] = x })

\* s and t hold the same rows the same number of times
SameRows(s, t) ==
    /\ Len(s) = Len(t)
    /\ \A n \in 1..Len(s) : CountIn(s, s[n]) = CountIn(t, s[n])

\* C1: after a full build (pass 1 then pass 2) every source and every dest
\* stored in links is the id of some row of nodes
C1_NoDanglingEdges ==
    BuildDone =>
        \A n \in 1..Len(links) :
            links[n].source \in NodeIds(nodes) /\ links[n].dest \in NodeIds(nodes)

\* a finished build that stored an edge to a placeholder node (a node whose
\* file is the raw link text, not the path of a note)
C1_Witness ==
    /\ BuildDone
    /\ \E n \in 1..Len(links), m \in 1..Len(nodes) :
        /\ nodes[m].id = links[n].dest
        /\ ~EndsWithOrg(nodes[m].file)
        /\ nodes[m].file \notin DOMAIN fs

\* C2: at any point of pass 2 there is at most one links row for a given
\* (source, dest) pair
C2_OneEdgePerPair ==
    \A m, n \in 1..Len(links) :
        (links[m].source = links[n].source /\ links[m].dest = links[n].dest) => m = n

\* C3: there is at most one tags row for a given (node_id, tag) pair
C3_OneRowPerNodeTag ==
    \A m, n \in 1..Len(tags) :
        (tags[m].node_id = tags[n].node_id /\ tags[m].tag = tags[n].tag) => m = n

\* C4: update_graph.py exits nonzero whenever schema creation, population or
\* the export failed, and with 0 only when all of them succeeded
C4_ExitCodeReportsFailure ==
    pc = "exit" =>
        /\ (build_rc # 0 \/ load_result # "True") => exit_code # 0
        /\ exit_code = 0 => (build_rc = 0 /\ load_result = "True")

\* the read-fault-free files of the collection
ReadableFiles == { p \in DOMAIN fs : fault[p] = "ok" }

RECURSIVE SumOver(_, _)
SumOver(S, f) == IF S = {} THEN 0
                 ELSE LET x == CHOOSE y \in S : TRUE IN f[x] + SumOver(S \ {x}, f)

\* C8 as stated: a file whose read fails is skipped; after the build it has
\* no node row, and the tag and link rows are those of the other files
C8_UnreadableFileOmitted ==
    BuildDone =>
        /\ \A p \in DOMAIN fs : fault[p] # "ok" =>
              \A n \in 1..Len(nodes) : nodes[n].file # p
        /\ Len(tags) = SumOver(ReadableFiles,
                               [p \in ReadableFiles |-> Cardinality(extract_tags_from_content(fs[p]))])
        /\ Len(links) = SumOver(ReadableFiles,
                                [p \in ReadableFiles |-> Len(fs[p].links)])

\* C8, amended: a file whose read fails does not abort the run and adds no
\* tag row and no link row, but pass 1 still stores its node row: the id is
\* the declared ID when the head of the file could be read and the hash of
\* the relative path otherwise, the title is the base file name
C8_UnreadableFileKeepsNode ==
    [][ /\ (pc = "pass1" /\ fault[org_files[i]] # "ok") =>
            LET p  == org_files[i]
                id == IF fault[p] = "decode" /\ fs[p].id # NoText
                      THEN fs[p].id ELSE Sha1(StripOrg(p))
            IN  /\ tags' = tags
                /\ nodes'[Len(nodes')] = [id |-> id, file |-> p, title |-> StripOrg(p), level |-> 0]
                /\ Cardinality({ n \in 1..Len(nodes') : nodes'[n].file = p }) = 1
                /\ pc' \in {"pass1", "pass2"}
        /\ (pc = "pass2" /\ fault[org_files[i]] # "ok") =>
                /\ links' = links
                /\ nodes' = nodes
                /\ pc' \in {"pass2", "built"}
                /\ pc' = "built" => build_rc' = 0
      ]_vars

\* a finished build over two files, the first of which could not be read
\* although it holds tags and links; its node row is in the table
C8_Witness ==
    /\ BuildDone
    /\ Len(org_files) = 2
    /\ fault[org_files[1]] # "ok"
    /\ fs[org_files[1]].links # <<>>
    /\ extract_tags_from_content(fs[org_files[1]]) # {}
    /\ \E n \in 1..Len(nodes) : nodes[n].file = org_files[1]
    /\ tags # <<>>

\* the link targets pass 2 reads from the file it is at
Pass2Targets == extract_links_from_content(fs[org_files[i]])

\* C11: in pass 2 a link target that is the id of an existing node resolves
\* to that node by exact match, whatever file paths end with the target: the
\* stored row has the target as dest and no placeholder row is created for it
C11_ExactIdWins ==
    [][ (pc = "pass2" /\ Readable(org_files[i])) =>
            /\ Len(links') = Len(links) + Len(Pass2Targets)
            /\ \A k \in 1..Len(Pass2Targets) :
                  Pass2Targets[k] \in NodeIds(nodes) =>
                    /\ links'[Len(links) + k]
                          = LinkRow(node_ids[org_files[i]], Pass2Targets[k])
                    /\ \A m \in 1..Len(nodes') :
                          nodes'[m].file = Pass2Targets[k] => nodes'[m] \in Range(nodes)
      ]_vars

\* a finished build that stored an edge to the node whose id is b while the
\* path of another node, of a different id, ends with b.org; no placeholder
\* named b exists
C11_Witness ==
    /\ BuildDone
    /\ \E n \in 1..Len(links) : links[n].dest = <<"b">>
    /\ \E m \in 1..Len(nodes) : nodes[m].id = <<"b">>
    /\ \E m \in 1..Len(nodes) :
          IsSuffix(AddOrg(<<"b">>), nodes[m].file) /\ nodes[m].id # <<"b">>
    /\ \A m \in 1..Len(nodes) : nodes[m].file # <<"b">>

\* C13: in pass 2, a link target that is no node id and that, with the file
\* extension added when it has none, is the complete relative path of a note
\* with a row in nodes, is stored with the id of that note as dest, whatever
\* other file paths end with the same string
C13_FullPathWins ==
    [][ (pc = "pass2" /\ Readable(org_files[i])) =>
            \A k \in 1..Len(Pass2Targets) :
                LET target    == Pass2Targets[k]
                    link_path == AddOrg(target)
                IN  \A m \in 1..Len(nodes) :
                        ( /\ target \notin NodeIds(nodes)
                          /\ link_path \in DOMAIN fs
                          /\ nodes[m].file = link_path )
                        => links'[Len(links) + k].dest = nodes[m].id
      ]_vars

\* the line lists words separated by single colons, with or without a colon
\* in front and at the end
ColonDelimited(line) ==
    LET t == StripBlanks(line) IN
    /\ \E k \in 1..Len(t) : IsWord(t[k])
    /\ \E k \in 1..Len(t) : t[k] = Colon
    /\ \A k \in 1..Len(t) : t[k] # Blank
    /\ \A k \in 1..(Len(t) - 1) : IsWord(t[k]) # IsWord(t[k + 1])

WordsOf(line) == { line[k] : k \in { n \in 1..Len(line) : IsWord(line[n]) } }

\* C12: every token of a colon-delimited tag declaration line is a tag that
\* extract_tags_from_content returns, and after the build each is stored in
\* tags against the id of the note
C12_DeclaredTagsStored ==
    BuildDone =>
        \A p \in ReadableFiles :
            ColonDelimited(fs[p].filetags) =>
                \A w \in WordsOf(fs[p].filetags) :
                    /\ w \in extract_tags_from_content(fs[p])
                    /\ TagRow(node_ids[p], w) \in Range(tags)

\* ------------------------------------------------------------------------
Rebuilt == BuildDone /\ first.done

\* C9 as stated: a rebuild of the unchanged collection gives the same node,
\* link and tag counts, whatever the order of the files in either run
C9_SameCounts ==
    Rebuilt => counts = first.counts

\* C9, amended: a rebuild of the unchanged collection gives the same link
\* and tag counts for every order of the files, and the same node count when
\* the files come in the same order in both runs
C9_SameCountsSameOrder ==
    Rebuilt =>
        /\ counts[2] = first.counts[2]
        /\ counts[3] = first.counts[3]
        /\ org_files = first.org_files => counts = first.counts

\* a rebuild in the order of the first build, with nodes, links and tags
C9_Witness ==
    /\ Rebuilt
    /\ org_files = first.org_files
    /\ Len(org_files) = 2
    /\ counts[1] >= 2 /\ counts[2] >= 1 /\ counts[3] >= 1

\* the id pass 1 gives the note at p when the file can be read
DeclaredOrHashed(p) == IF fs[p].id # NoText THEN fs[p].id ELSE Sha1(StripOrg(p))

\* position of the last file of the list that resolves to the id
LastOf(files, id) ==
    CHOOSE n \in 1..Len(files) :
        /\ DeclaredOrHashed(files[n]) = id
        /\ \A m \in (n + 1)..Len(files) : DeclaredOrHashed(files[m]) # id

Pass1Done == pc = "pass2" /\ i = 1

\* C10 as stated: the node rows and the tag rows stored at the end of pass 1
\* are the same for every order of the files
C10_SameRowsAnyOrder ==
    (Pass1Done /\ first.done) =>
        /\ Range(pass1.nodes) = Range(first.pass1.nodes)
        /\ Range(pass1.tags) = Range(first.pass1.tags)

\* C10, amended: the node ids and the tag rows stored at the end of pass 1
\* are the same for every order of the files; the node row of an id carries
\* the file and title of the last processed file that resolves to it, so the
\* node rows are the same for every order when no two files share an id
C10_Pass1Result ==
    Pass1Done =>
        /\ NodeIds(pass1.nodes) = { DeclaredOrHashed(p) : p \in DOMAIN fs }
        /\ \A n \in 1..Len(pass1.nodes) :
            LET q == org_files[LastOf(org_files, pass1.nodes[n].id)]
            IN  /\ pass1.nodes[n].file = q
                /\ pass1.nodes[n].title = TitleOf(q, fs[q])
                /\ CountIn(pass1.nodes, pass1.nodes[n]) = 1
        /\ first.done =>
            /\ NodeIds(pass1.nodes) = NodeIds(first.pass1.nodes)
            /\ SameRows(pass1.tags, first.pass1.tags)
            /\ (\A p, q \in DOMAIN fs : DeclaredOrHashed(p) = DeclaredOrHashed(q) => p = q)
                  => Range(pass1.nodes) = Range(first.pass1.nodes)

\* the end of pass 1 of a rebuild that took the files in another order than
\* the first build, two of them declaring the same ID
C10_Witness ==
    /\ Pass1Done /\ first.done
    /\ org_files # first.org_files
    /\ \E p, q \in DOMAIN fs : p # q /\ fs[p].id # NoText /\ fs[p].id = fs[q].id
    /\ Range(pass1.nodes) # Range(first.pass1.nodes)

\* ------------------------------------------------------------------------
\* Properties of the export
\* ------------------------------------------------------------------------
\* every link row and every tag row of the snapshot references a node row
Sound(d) ==
    /\ \A n \in 1..Len(d.links) :
        d.links[n].source \in NodeIds(d.nodes) /\ d.links[n].dest \in NodeIds(d.nodes)
    /\ \A n \in 1..Len(d.tags) : d.tags[n].node_id \in NodeIds(d.nodes)

TagValues(d) == { d.tags[n].tag : n \in 1..Len(d.tags) }

\* one note entity per nodes row, one tag entity per distinct tag value, one
\* LINKS_TO per links row, one HAS_TAG per tags row, and nothing else
Mirrors(g, d) ==
    /\ SameRows(g.nodes, d.nodes)
    /\ SameRows(g.rels, d.links)
    /\ SameRows(g.hastags, d.tags)
    /\ Range(g.tagents) = TagValues(d)
    /\ Len(g.tagents) = Cardinality(TagValues(d))

LoadSucceeded == pc = "loaded" /\ load_result = "True"

NothingRejected == \A n \in 1..Len(log) : log[n].ok

Phase4(op) == CASE op \in {"connect", "clear"} -> 0
                [] op = "node"   -> 1
                [] op = "link"   -> 2
                [] op = "merge"  -> 3
                [] op = "hastag" -> 4

Phase3(op) == CASE op \in {"connect", "clear"} -> 0
                [] op = "node"   -> 1
                [] op = "link"   -> 2
                [] op \in {"merge", "hastag"} -> 3

\* C6 as stated: the remote writes come in four phases, note entities, then
\* LINKS_TO, then all tag entities, then all HAS_TAG
C6_FourPhases ==
    \A m, n \in 1..Len(log) : m < n => Phase4(log[m].op) <= Phase4(log[n].op)

\* C6, amended: the remote writes come as all note entities, then all
\* LINKS_TO, then for each tags row in turn the MERGE of its tag entity
\* directly followed by its HAS_TAG; the endpoints of every relationship in
\* the store exist
C6_WriteOrder ==
    /\ \A m, n \in 1..Len(log) : m < n => Phase3(log[m].op) <= Phase3(log[n].op)
    /\ \A n \in 1..Len(log) :
        log[n].op = "hastag" =>
            /\ n > 1
            /\ log[n - 1].op = "merge"
            /\ log[n - 1].ok
            /\ log[n - 1].row = log[n].row
    /\ \A n \in 1..Len(log) :
        (log[n].op = "merge" /\ n > 1) => log[n - 1].op \in {"node", "link", "hastag"}
    /\ \A n \in 1..Len(neo.rels) :
        MatchNode(neo, neo.rels[n].source) > 0 /\ MatchNode(neo, neo.rels[n].dest) > 0
    /\ \A n \in 1..Len(neo.hastags) :
        MatchNode(neo, neo.hastags[n].node_id) > 0 /\ MatchTag(neo, neo.hastags[n].tag) > 0

\* a finished load that wrote links and the HAS_TAG of two different tags
C6_Witness ==
    /\ LoadSucceeded
    /\ Len(neo.rels) > 0
    /\ Len(neo.tagents) >= 2
    /\ Len(neo.hastags) >= 2

WriteOps == {"node", "link", "merge", "hastag"}

\* C7 as stated: when the store rejects a single write, entity or
\* relationship, load_to_neo4j still goes through every statement and
\* returns success
C7_AnyWriteRecovered ==
    (pc = "loaded" /\ \E n \in 1..Len(log) : ~log[n].ok /\ log[n].op \in WriteOps)
        => (load_result = "True" /\ Len(log) = Len(LoadPlan(ext)))

OkCount(op) == Cardinality({ n \in 1..Len(log) : log[n].op = op /\ log[n].ok })

\* C7, amended: a rejected relationship write (LINKS_TO or HAS_TAG) is
\* skipped, every other row is still processed and load_to_neo4j returns
\* success; a rejected connection, clearing or entity write (note or tag
\* entity) makes load_to_neo4j return failure
C7_RelationshipWriteRecovered ==
    pc = "loaded" =>
        /\ load_result = "True"
            <=> (\A n \in 1..Len(log) : log[n].ok \/ log[n].op \in {"link", "hastag"})
        /\ load_result = "True" =>
            /\ Len(log) = Len(LoadPlan(ext))
            /\ Sound(ext) => /\ Len(neo.rels) = OkCount("link")
                             /\ Len(neo.hastags) = OkCount("hastag")
                             /\ Len(neo.nodes) = Len(ext.nodes)

\* a load that returned success although a LINKS_TO write was rejected, and
\* that processed rows after the rejected one
C7_Witness ==
    /\ LoadSucceeded
    /\ \E n \in 1..Len(log) :
        /\ ~log[n].ok /\ log[n].op = "link"
        /\ \E m \in (n + 1)..Len(log) : log[m].ok /\ log[m].op \in {"link", "hastag"}

====
